---- MODULE Spec2Model ----
(***************************************************************************)
(* A model of the Personio API v1 client (v1/personio.go): the token slot  *)
(* of Client.doRequest, Client.Authenticate, the paginator                 *)
(* Client.GetTimeOffs, GetEmployee and GetEmployees, and the getters of an *)
(* Attribute.  The upstream server is the environment: every response      *)
(* (status, headers, body, number of records of a page) is a               *)
(* nondeterministic input (Spec, SpecCtx), or it is the server of the      *)
(* tests (SpecMock) or a server with a fixed result set (SpecData).  An    *)
(* action runs the client's code from one transport call to the next; in   *)
(* SpecConc two threads run doRequest statement by statement.  SpecLoop is *)
(* a caller of GetTimeOffs whose calls go on (fairness); SpecAttr,         *)
(* SpecContainer and SpecUtil apply the getters of an Attribute, those of  *)
(* an AttributeContainer and util.GetTimeIntersection to their arguments.  *)
(***************************************************************************)
EXTENDS Integers, Sequences, FiniteSets, TLC

VARIABLES
    AccessToken,  \* personio.secret.AccessToken, "" when the slot is empty
    pc,           \* "idle"; the place doRequest is at: "auth", "send", "wait";
                  \* "decode": doRequestJson has returned; "done": the call
                  \* has returned
    call,         \* the call in progress (or the last one): op, offset, limit, token0
    req,          \* the request doRequest works on: limit, offset, authorization
    count,        \* GetTimeOffs: count
    results,      \* GetTimeOffs: results, the pages appended so far
    reply,        \* body, err of doRequestJson, once it has returned
    ret,          \* what the last finished call returned: err, value
    reqs,         \* history: the range queries of this call, in order
    received,     \* history: every page decoded during this call, in order
    nTransport,   \* history: transport calls (client.Do) issued by this call
    cur,          \* history: the authenticated doRequest in progress
    prev,         \* history: the authenticated doRequest before it
    heldUsed,     \* history: the token acquisition in the slot was attached already
    reuse,        \* history: some acquisition was attached to a second request
    ctx,          \* personio.ctx: "nil", "live" or "cancelled"
    lastResp,     \* history: what the last client.Do of this call returned
    upstream,     \* the server: how it answers, the token it accepted last,
                  \* the number of records of its result set
    plan,         \* a caller with a fixed series of calls: the calls to come
    journal,      \* ... and the calls it made, with what they returned
    slot,         \* two threads: the two words (data, len) of AccessToken
    thr,          \* two threads: where each is in doRequest, and its locals
    attached,     \* two threads, history: the tokens attached to requests
    input,        \* pure functions: the arguments
    output        \* pure functions: the results

\* The variables of the caller with a plan, of the two threads and of the pure
\* functions; the calls of a single caller leave them alone.
planVars == <<plan, journal>>
threadVars == <<slot, thr, attached>>
funVars == <<input, output>>
others == <<planVars, threadVars, funVars>>

\* The variables of a single caller's calls.
clientVars == <<AccessToken, pc, call, req, count, results, reply, ret, reqs,
                received, nTransport, cur, prev, heldUsed, reuse, ctx, lastResp,
                upstream>>

vars == <<clientVars, others>>

-----------------------------------------------------------------------------
(* Bounds of the model. *)

\* GetTimeOffs is called with limits up to MaxPages full pages plus one record.
MaxPages == 2
\* Upstream may return up to MaxExtra records more than the page size asked for.
MaxExtra == 1
\* GetTimeOffs is called with offsets 0..MaxOffset.
MaxOffset == 1
\* A response to GET /company/employees holds up to MaxEmployees records.
MaxEmployees == 2
\* Of two threads, one makes up to MaxThreadRequests authenticated requests
\* while the other makes one.
MaxThreadRequests == 2

-----------------------------------------------------------------------------
(* Constants and values of the program. *)

timeOffsMaxLimit == 200

\* The nil element of make([]*TimeOff, count); records are numbered from 1.
Nil == 0

\* Access tokens upstream hands out (those of the test server), "" is no token.
Tokens == {"ghi", "jkl"}

\* A header value is the sequence of its pieces; "Bearer " is one piece and the
\* absent header (Header.Get gives "") is the empty sequence.
Bearer == "Bearer "

BearerHeader(token) == <<Bearer, token>>

\* strings.Replace(h, "Bearer ", "", 1): the first "Bearer " piece removed.
RECURSIVE StripBearer(_)
StripBearer(h) ==
    IF h = <<>> THEN <<>>
    ELSE IF Head(h) = Bearer THEN Tail(h)
    ELSE <<Head(h)>> \o StripBearer(Tail(h))

\* The string a header value without its "Bearer " piece spells.
HeaderToken(h) ==
    LET rest == StripBearer(h) IN
    IF rest = <<>> THEN "" ELSE rest[1]

\* Errors: StatusError carries the HTTP status code, the others carry none.
NoError == [kind |-> "none", code |-> 0]
Err(kind) == [kind |-> kind, code |-> 0]

\* Mutant of StatusError: the status code is left out.
StatusErrorBlank(code) == [kind |-> "status", code |-> 0]

StatusError(code) == [kind |-> "status", code |-> code]

\* The error of doRequestJson for success=false: a plain error whose text spells
\* the code and the message of the envelope; it has no Status().
EnvelopeError(code, message) ==
    [kind |-> "envelope", code |-> 0, text |-> <<"code=", code, "message=", message>>]

\* err.(Error) succeeds: the error has a Status().
HasStatus(err) == err.kind = "status"

-----------------------------------------------------------------------------
(* The environment: what upstream may answer. *)

\* Statuses doRequest takes for a success (200..299) and for an error.
OkStatuses == {200, 299}
ErrorStatuses == {199, 300, 401, 404}

ResponseHeaders ==
    {<<>>, <<Bearer>>} \cup {BearerHeader(t) : t \in Tokens} \cup {<<"ghi">>}

\* Headers of an /auth response (doRequest does not look at them).
AuthHeaders == {<<>>, BearerHeader("jkl")}

\* The error object of a success=false envelope: absent (code 0, no message),
\* or a code and a message.
EnvelopeErrors == {[code |-> 0, message |-> ""], [code |-> 42, message |-> "quota"]}

\* Bodies of a data response: unreadable, not JSON, success=false, success=true
\* with data of the wrong shape, or success=true with a page of n records.
DataBodies(sizes) ==
    {[kind |-> k, n |-> 0] : k \in {"readerr", "badjson", "badshape"}}
        \cup {[kind |-> "fail", n |-> 0, error |-> e] : e \in EnvelopeErrors}
        \cup {[kind |-> "ok", n |-> n] : n \in sizes}

\* Bodies of an /auth response; the token of a success body may be missing ("").
AuthBodies ==
    {[kind |-> k, token |-> ""] : k \in {"readerr", "badjson", "badshape"}}
        \cup {[kind |-> "fail", token |-> "", error |-> e] : e \in EnvelopeErrors}
        \cup {[kind |-> "ok", token |-> t] : t \in Tokens \cup {""}}

\* Bodies of a response to GET /company/employees: the n records of the
\* response, and the records upstream's result set holds after them.
EmployeesBodies ==
    {[kind |-> k, n |-> 0, rest |-> 0] : k \in {"readerr", "badjson", "badshape"}}
        \cup {[kind |-> "fail", n |-> 0, rest |-> 0, error |-> e] : e \in EnvelopeErrors}
        \cup {b \in {[kind |-> "ok", n |-> n, rest |-> r] :
                        n \in 0..MaxEmployees, r \in {0, 1}} :
                b.n > 0 \/ b.rest = 0}

\* client.Do fails (no response), or answers with a status, headers and a body;
\* the body of an error status is not read.
NoBody == [kind |-> "none"]

NetError == [kind |-> "neterr", status |-> 0, header |-> <<>>, body |-> NoBody]

Responses(oks, headers, bodies) ==
    {NetError}
    \cup {[kind |-> "http", status |-> s, header |-> h, body |-> NoBody] :
            s \in ErrorStatuses, h \in headers}
    \cup {[kind |-> "http", status |-> s, header |-> h, body |-> b] :
            s \in oks, h \in headers, b \in bodies}

\* The page sizes upstream answers a query for `step` records with.
PageSizes(step) ==
    {n \in {0, 1, step - 1, step} \cup (step + 1 .. step + MaxExtra) : n >= 0}

\* A page of n records answered to a query at offset off. Upstream's records are
\* numbered by their position in its result set, so the page holds the records
\* off+1 .. off+n: PageAt(p, j) is its j-th record (from 1), Data(p) all of them.
Page(off, n) == [off |-> off, n |-> n]
PageAt(p, j) == p.off + j
Data(p) == [j \in 1..p.n |-> PageAt(p, j)]

Limits ==
    {0, 1} \cup {k * timeOffsMaxLimit + d : k \in 1..MaxPages, d \in {-1, 0, 1}}

Offsets == 0..MaxOffset

\* Upstream of which nothing is known: any response to any request.
Anything == [mode |-> "any", lastToken |-> "", size |-> 0]

\* The server of the tests (PersonioMock) with a result set of `size` records.
Mock(size) == [mode |-> "mock", lastToken |-> "", size |-> size]

\* A server that holds a result set of `size` records and answers every query
\* with the records of its range; it takes any token and may or may not rotate.
Dataset(size) == [mode |-> "data", lastToken |-> "", size |-> size]

\* The largest limit the server of the tests takes; the client's page cap.
pagingMaxLimit == timeOffsMaxLimit

\* PersonioMock.authenticate: the token is "ghi" or "jkl" and not the last one.
MockAccepts(up, authorization) ==
    LET token == HeaderToken(authorization) IN
    ~((token # "ghi" /\ token # "jkl") \/ token = up.lastToken)

\* PersonioMock.authenticate: the rotation header.
MockRotation(authorization) ==
    IF HeaderToken(authorization) = "ghi"
    THEN BearerHeader("jkl") ELSE BearerHeader("ghi")

\* The server after it answered the request.
UpstreamAfter(up, authorization) ==
    IF up.mode = "mock" /\ MockAccepts(up, authorization)
    THEN [up EXCEPT !.lastToken = HeaderToken(authorization)]
    ELSE up

\* The records of the result set in the range of a query: those after the
\* first `offset`, up to `limit` of them.
RangeSize(size, offset, limit) ==
    IF size - offset <= 0 THEN 0
    ELSE IF size - offset < limit THEN size - offset ELSE limit

Http(status, header, body) ==
    [kind |-> "http", status |-> status, header |-> header, body |-> body]

\* What the handlers of the server of the tests answer an accepted request
\* with, header h being set: a page of time-offs or 400; all employees; an
\* employee or 404.
HandlerAnswers(up, op, request, h) ==
    IF op = "GetTimeOffs"
    THEN IF request.limit > pagingMaxLimit \/ request.limit < 1 \/ request.offset < 0
         THEN {Http(400, h, NoBody)}
         ELSE {Http(200, h, [kind |-> "ok",
                             n |-> RangeSize(up.size, request.offset, request.limit)])}
    ELSE IF op = "GetEmployees"
    THEN {Http(200, h, [kind |-> "ok", n |-> up.size, rest |-> 0])}
    ELSE {Http(200, h, [kind |-> "ok", n |-> 1]), Http(404, h, NoBody)}

MockAnswers(up, op, request) ==
    IF ~MockAccepts(up, request.authorization)
    THEN {Http(401, <<>>, NoBody)}
    ELSE HandlerAnswers(up, op, request, MockRotation(request.authorization))

\* What client.Do may return for the request of a data call; a success is
\* answered with 200 (the /auth exchange goes through both ends of 200..299).
\* With a cancelled context the transport gives up the call.
DataAnswers(up, c, op, request) ==
    IF c = "cancelled" THEN {NetError}
    ELSE IF up.mode = "mock" THEN MockAnswers(up, op, request)
    ELSE IF up.mode = "data"
        THEN UNION {HandlerAnswers(up, op, request, h) :
                        h \in {<<>>, BearerHeader("jkl")}}
    ELSE Responses({200}, ResponseHeaders,
                   IF op = "GetTimeOffs" THEN DataBodies(PageSizes(request.limit))
                   ELSE IF op = "GetEmployees" THEN EmployeesBodies
                   ELSE DataBodies({1}))

\* What client.Do may return for POST /auth; the server of the tests answers
\* the client's credentials with the token "ghi".
AuthAnswers(up, c) ==
    IF c = "cancelled" THEN {NetError}
    ELSE IF up.mode = "any" THEN Responses(OkStatuses, AuthHeaders, AuthBodies)
    ELSE {Http(200, <<>>, [kind |-> "ok", token |-> "ghi"])}

-----------------------------------------------------------------------------
(* The client's code, as operators. *)

\* Mutant of ClientDoError: the error of client.Do is returned as it is.
ClientDoErrorVerbatim(c) == Err("transport")

\* doRequest, client.Do has failed: with a context that is done the error is
\* ctx.Err(), else (and without a context) it is the error of client.Do.
ClientDoError(c) ==
    IF c = "cancelled" THEN Err("cancelled") ELSE Err("transport")

\* doRequest: the status is one of 200..299.
StatusOk(status) == ~(status < 200 \/ status >= 300)

\* doRequest, after client.Do: a transport error, a StatusError for a status
\* outside 200..299, an error of io.ReadAll, or the body.
DoRequestResult(resp) ==
    IF resp.kind = "neterr" THEN [err |-> ClientDoError(ctx), body |-> resp.body]
    ELSE IF ~StatusOk(resp.status)
        THEN [err |-> StatusError(resp.status), body |-> resp.body]
    ELSE IF resp.body.kind = "readerr" THEN [err |-> Err("read"), body |-> resp.body]
    ELSE [err |-> NoError, body |-> resp.body]

\* Mutant of DoRequestJsonResult: success is not looked at.
DoRequestJsonUnchecked(resp) ==
    LET r == DoRequestResult(resp) IN
    IF r.err # NoError THEN r
    ELSE IF r.body.kind = "badjson" THEN [err |-> Err("decode"), body |-> r.body]
    ELSE r

\* doRequestJson: the body is unmarshalled into resultBody, success=false is an error.
DoRequestJsonResult(resp) ==
    LET r == DoRequestResult(resp) IN
    IF r.err # NoError THEN r
    ELSE IF r.body.kind = "badjson" THEN [err |-> Err("decode"), body |-> r.body]
    ELSE IF r.body.kind = "fail"
        THEN [err |-> EnvelopeError(r.body.error.code, r.body.error.message),
              body |-> r.body]
    ELSE r

\* Mutant of AuthenticateResult: the token is never decoded.
AuthenticateFails(resp) == [err |-> Err("decode"), token |-> ""]

\* Mutant of AuthenticateResult: an error is swallowed, the token is empty.
AuthenticateSwallows(resp) ==
    LET r == DoRequestJsonResult(resp) IN
    IF r.err # NoError \/ r.body.kind = "badshape" THEN [err |-> NoError, token |-> ""]
    ELSE [err |-> NoError, token |-> r.body.token]

\* Authenticate: doRequestJson(req, false), then auth.Data.Token of the body.
AuthenticateResult(resp) ==
    LET r == DoRequestJsonResult(resp) IN
    IF r.err # NoError THEN [err |-> r.err, token |-> ""]
    ELSE IF r.body.kind = "badshape" THEN [err |-> Err("decode"), token |-> ""]
    ELSE [err |-> NoError, token |-> r.body.token]

\* Mutant of Consume: the attached token stays in the slot.
ConsumeKeeps(token) == token

\* doRequest: the token is consumed when it is attached to the request.
Consume(token) == ""

\* Mutant of Rotate: the token of the response header is not stored.
RotateIgnores(held, nextAuthorization) == held

\* doRequest: cycle or reset accessToken.
Rotate(held, nextAuthorization) ==
    IF nextAuthorization # "" THEN nextAuthorization ELSE held

\* Mutant of StoredToken: the header is looked at after the status check, for
\* a response with a 2xx status only.
StoredTokenIfOk(held, resp, useAuthentication) ==
    IF useAuthentication /\ resp.kind = "http" /\ StatusOk(resp.status)
    THEN Rotate(held, HeaderToken(resp.header)) ELSE held

\* Mutant of StoredToken: the header is looked at without useAuthentication.
StoredTokenOfAny(held, resp, useAuthentication) ==
    IF resp.kind = "http" THEN Rotate(held, HeaderToken(resp.header)) ELSE held

\* doRequest(request, useAuthentication), from client.Do to the status check:
\* the slot after the response (or the error of client.Do) has come in.
StoredToken(held, resp, useAuthentication) ==
    IF useAuthentication /\ resp.kind = "http"
    THEN Rotate(held, HeaderToken(resp.header)) ELSE held

\* Mutant of LoopGuard: the loop is entered once more.
LoopGuardInclusive(cnt, limit) == cnt <= limit

\* GetTimeOffs: the loop condition.
LoopGuard(cnt, limit) == cnt < limit

\* Mutant of StepLimit: the page size is not capped.
StepLimitUncapped(limit, cnt) == limit - cnt

\* GetTimeOffs: stepLimit.
StepLimit(limit, cnt) ==
    IF limit - cnt > timeOffsMaxLimit THEN timeOffsMaxLimit ELSE limit - cnt

\* Mutant of QueryOffset: every query starts at the caller's offset.
QueryOffsetFixed(offset, cnt) == offset

\* GetTimeOffs: the offset of the query.
QueryOffset(offset, cnt) == offset + cnt

\* Mutant of ShortPage: only an empty page ends the loop.
ShortPageEmptyOnly(resultLength, stepLimit) == resultLength = 0

\* GetTimeOffs: the break after a page.
ShortPage(resultLength, stepLimit) == resultLength < stepLimit

\* GetTimeOffs, unpack: page i (from 0) writes its element j (from 0) to index
\* i*timeOffsMaxLimit + j; the pages are written in order.
RECURSIVE UnpackFrom(_, _, _)
UnpackFrom(timeOffs, res, i) ==
    IF i > Len(res) THEN timeOffs
    ELSE LET first == (i - 1) * timeOffsMaxLimit
             page == res[i]
             len == page.n
         IN UnpackFrom(
                [x \in 1..Len(timeOffs) |->
                    IF first < x /\ x <= first + len
                    THEN PageAt(page, x - first) ELSE timeOffs[x]],
                res, i + 1)

Unpack(res, cnt) == UnpackFrom([x \in 1..cnt |-> Nil], res, 1)

\* Mutant of ErrorReturn: the pages fetched before the error are returned.
ErrorReturnPartial(err, res, cnt) == [err |-> err, value |-> Unpack(res, cnt)]

\* GetTimeOffs: what it returns on an error of a page (return nil, err).
ErrorReturn(err, res, cnt) == [err |-> err, value |-> <<>>]

\* An index of the unpack step lies outside make([]*TimeOff, count): Go panics.
UnpackPanics(res, cnt) ==
    \E i \in 1..Len(res) :
        res[i].n > 0 /\ (i - 1) * timeOffsMaxLimit + (res[i].n - 1) >= cnt

-----------------------------------------------------------------------------
(* The state machine. *)

NoRequest == [limit |-> 0, offset |-> 0, authorization |-> <<>>]
NoCall == [op |-> "none", offset |-> 0, limit |-> 0, token0 |-> ""]
Fresh == [authRan |-> FALSE, sent |-> FALSE, tok |-> "", cut |-> FALSE]
NoReturn == [err |-> NoError, value |-> <<>>]
NoSlot == [data |-> "", len |-> 0]
NoThreads == <<>>
NoInput == <<>>
NoOutput == <<>>
NoReply == [err |-> NoError, body |-> NoBody]
NoResponse == [kind |-> "none", status |-> 0, body |-> NoBody, ctx |-> "nil"]
Seen(resp) ==
    [kind |-> resp.kind, status |-> resp.status, body |-> resp.body, ctx |-> ctx]

\* NewClient(c, ...) for upstream up: the caller's Credentials may already hold
\* an access token.
NewClient(c, up) ==
    /\ AccessToken \in Tokens \cup {""}
    /\ pc = "idle"
    /\ call = NoCall
    /\ req = NoRequest
    /\ count = 0
    /\ results = <<>>
    /\ reply = NoReply
    /\ ret = NoReturn
    /\ reqs = <<>>
    /\ received = <<>>
    /\ nTransport = 0
    /\ cur = Fresh
    /\ prev = [exists |-> FALSE, rot |-> "", ok |-> FALSE]
    /\ heldUsed = FALSE
    /\ reuse = FALSE
    /\ ctx = c
    /\ lastResp = NoResponse
    /\ upstream = up

\* No caller with a plan, no threads, no pure function.
Unused ==
    /\ plan = <<>>
    /\ journal = <<>>
    /\ slot = NoSlot
    /\ thr = NoThreads
    /\ attached = {}
    /\ input = NoInput
    /\ output = NoOutput

\* A client with a context that is never cancelled (context.TODO() in the
\* tests), upstream unknown.
Init == NewClient("live", Anything) /\ Unused

\* The call returns r.
Return(r) ==
    /\ pc' = "done"
    /\ ret' = r
    /\ req' = NoRequest

\* doRequestJson(req, true) is entered with a new request.
EnterDoRequest(r) ==
    /\ pc' = "auth"
    /\ req' = r
    /\ cur' = Fresh
    /\ reply' = NoReply
    /\ ret' = NoReturn
    /\ lastResp' = NoResponse

\* GetTimeOffs from the loop condition on, with count = cnt and results = res:
\* the next query is built, or the pages are unpacked and returned.
TimeOffsLoop(offset, limit, cnt, res, broke) ==
    IF ~broke /\ LoopGuard(cnt, limit)
    THEN EnterDoRequest([limit |-> StepLimit(limit, cnt),
                         offset |-> QueryOffset(offset, cnt),
                         authorization |-> <<>>])
    ELSE /\ Return(IF UnpackPanics(res, cnt)
                   THEN [err |-> Err("panic"), value |-> <<>>]
                   ELSE [err |-> NoError, value |-> Unpack(res, cnt)])
         /\ UNCHANGED <<cur, reply, lastResp>>

\* GetTimeOffs(start, end, offset, limit) is called: up to the first request.
GetTimeOffs(offset, limit) ==
    /\ pc = "idle"
    /\ call' = [op |-> "GetTimeOffs", offset |-> offset, limit |-> limit,
                token0 |-> AccessToken]
    /\ count' = 0
    /\ results' = <<>>
    /\ reqs' = <<>>
    /\ received' = <<>>
    /\ nTransport' = 0
    /\ TimeOffsLoop(offset, limit, 0, <<>>, FALSE)
    /\ UNCHANGED <<AccessToken, prev, heldUsed, reuse, ctx, upstream>>

CallGetTimeOffs(offset, limit) == GetTimeOffs(offset, limit) /\ UNCHANGED others

\* GetEmployee(id) is called.
CallGetEmployee ==
    /\ pc = "idle"
    /\ call' = [op |-> "GetEmployee", offset |-> 0, limit |-> 0,
                token0 |-> AccessToken]
    /\ count' = 0
    /\ results' = <<>>
    /\ reqs' = <<>>
    /\ received' = <<>>
    /\ nTransport' = 0
    /\ EnterDoRequest(NoRequest)
    /\ UNCHANGED <<AccessToken, prev, heldUsed, reuse, ctx, upstream, others>>

\* GetEmployees() is called.
CallGetEmployees ==
    /\ pc = "idle"
    /\ call' = [op |-> "GetEmployees", offset |-> 0, limit |-> 0,
                token0 |-> AccessToken]
    /\ count' = 0
    /\ results' = <<>>
    /\ reqs' = <<>>
    /\ received' = <<>>
    /\ nTransport' = 0
    /\ EnterDoRequest(NoRequest)
    /\ UNCHANGED <<AccessToken, prev, heldUsed, reuse, ctx, upstream, others>>

\* Authenticate(clientId, clientSecret) is called by the user of the client:
\* its request goes through doRequest(req, false).
CallAuthenticate ==
    /\ pc = "idle"
    /\ \E resp \in AuthAnswers(upstream, ctx) :
        LET a == AuthenticateResult(resp) IN
        /\ call' = [op |-> "Authenticate", offset |-> 0, limit |-> 0,
                    token0 |-> AccessToken]
        /\ ret' = [err |-> a.err, value |-> <<a.token>>]
        /\ lastResp' = Seen(resp)
        /\ AccessToken' = StoredToken(AccessToken, resp, FALSE)
    /\ pc' = "done"
    /\ count' = 0
    /\ results' = <<>>
    /\ reqs' = <<>>
    /\ received' = <<>>
    /\ nTransport' = 1
    /\ UNCHANGED <<req, reply, cur, prev, heldUsed, reuse, ctx, upstream, others>>

\* doRequest with an empty slot: Authenticate runs; its error ends the call.
DoRequestAuthenticate ==
    /\ pc = "auth"
    /\ AccessToken = ""
    /\ nTransport' = nTransport + 1
    /\ \E resp \in AuthAnswers(upstream, ctx) :
        LET a == AuthenticateResult(resp) IN
        /\ lastResp' = Seen(resp)
        /\ IF a.err # NoError
           THEN /\ Return(IF call.op = "GetTimeOffs"
                          THEN ErrorReturn(a.err, results, count)
                          ELSE [err |-> a.err, value |-> <<>>])
                /\ cur' = [cur EXCEPT !.authRan = TRUE]
                /\ prev' = [exists |-> TRUE, rot |-> "", ok |-> FALSE]
                /\ UNCHANGED <<AccessToken, heldUsed, reply>>
           ELSE /\ AccessToken' = a.token
                /\ heldUsed' = FALSE
                /\ pc' = "send"
                /\ cur' = [cur EXCEPT !.authRan = TRUE]
                /\ UNCHANGED <<req, reply, ret, prev>>
    /\ UNCHANGED <<call, count, results, reqs, received, reuse, ctx, upstream,
                   others>>

\* doRequest: a held token is attached to the request and consumed, and the
\* request is handed to client.Do.
DoRequestSend ==
    /\ \/ pc = "auth" /\ AccessToken # ""
       \/ pc = "send"
    /\ pc' = "wait"
    /\ nTransport' = nTransport + 1
    /\ lastResp' = NoResponse
    /\ IF AccessToken # ""
       THEN /\ req' = [req EXCEPT !.authorization = BearerHeader(AccessToken)]
            /\ AccessToken' = Consume(AccessToken)
            /\ heldUsed' = TRUE
            /\ reuse' = (reuse \/ heldUsed)
            /\ cur' = [cur EXCEPT !.sent = TRUE, !.tok = AccessToken]
       ELSE /\ cur' = [cur EXCEPT !.sent = TRUE]
            /\ UNCHANGED <<req, AccessToken, heldUsed, reuse>>
    /\ reqs' = IF call.op = "GetTimeOffs"
               THEN Append(reqs, [limit |-> req.limit, offset |-> req.offset,
                                  fetched |-> count, state |-> "sent", got |-> 0])
               ELSE reqs
    /\ UNCHANGED <<call, count, results, reply, ret, received, prev, ctx,
                   upstream, others>>

\* doRequest after client.Do, and doRequestJson after it: a token of the
\* response's authorization header is stored; then the status and the body are
\* looked at.
DoRequestReceive ==
    /\ pc = "wait"
    /\ pc' = "decode"
    /\ \E resp \in DataAnswers(upstream, ctx, call.op, req) :
        LET nextAuthorization == HeaderToken(resp.header)
            token == StoredToken(AccessToken, resp, TRUE)
            stored == resp.kind = "http" /\ nextAuthorization # ""
                        /\ token = nextAuthorization
        IN /\ AccessToken' = token
           /\ heldUsed' = IF stored THEN FALSE ELSE heldUsed
           /\ prev' = [exists |-> TRUE,
                       rot |-> IF resp.kind = "http" THEN nextAuthorization ELSE "",
                       ok |-> resp.kind = "http" /\ StatusOk(resp.status)]
           /\ reply' = DoRequestJsonResult(resp)
           /\ lastResp' = Seen(resp)
    /\ upstream' = UpstreamAfter(upstream, req.authorization)
    /\ UNCHANGED <<call, req, count, results, ret, reqs, received, nTransport,
                   cur, reuse, ctx, others>>

\* GetTimeOffs after doRequestJson: an error ends the call; a page is appended
\* and counted, and the loop goes on or ends.
TimeOffsPage ==
    /\ pc = "decode"
    /\ call.op = "GetTimeOffs"
    /\ LET k == Len(reqs) IN
       IF reply.err # NoError \/ reply.body.kind = "badshape"
       THEN /\ Return(ErrorReturn(IF reply.err # NoError THEN reply.err
                                  ELSE Err("decode"), results, count))
            /\ reqs' = [reqs EXCEPT ![k].state = "failed"]
            /\ UNCHANGED <<count, results, received, cur, reply, lastResp>>
       ELSE LET resultLength == reply.body.n
                page == Page(req.offset, resultLength)
                res == IF resultLength > 0 THEN Append(results, page) ELSE results
                cnt == IF resultLength > 0 THEN count + resultLength ELSE count
            IN /\ results' = res
               /\ count' = cnt
               /\ received' = Append(received, page)
               /\ reqs' = [reqs EXCEPT ![k].state = "page", ![k].got = resultLength]
               /\ TimeOffsLoop(call.offset, call.limit, cnt, res,
                               ShortPage(resultLength, req.limit))
    /\ UNCHANGED <<AccessToken, call, nTransport, prev, heldUsed, reuse, ctx,
                   upstream, others>>

\* GetEmployee after doRequestJson.
EmployeeResult ==
    /\ pc = "decode"
    /\ call.op = "GetEmployee"
    /\ Return(IF reply.err # NoError THEN [err |-> reply.err, value |-> <<>>]
              ELSE IF reply.body.kind = "badshape"
                  THEN [err |-> Err("decode"), value |-> <<>>]
              ELSE [err |-> NoError, value |-> <<"employee">>])
    /\ UNCHANGED <<AccessToken, call, count, results, reply, reqs, received,
                   nTransport, cur, prev, heldUsed, reuse, ctx, lastResp,
                   upstream, others>>

\* GetEmployees after doRequestJson: the records of the response are unpacked.
EmployeesResult ==
    /\ pc = "decode"
    /\ call.op = "GetEmployees"
    /\ Return(IF reply.err # NoError THEN [err |-> reply.err, value |-> <<>>]
              ELSE IF reply.body.kind = "badshape"
                  THEN [err |-> Err("decode"), value |-> <<>>]
              ELSE [err |-> NoError, value |-> Data(Page(0, reply.body.n))])
    /\ UNCHANGED <<AccessToken, call, count, results, reply, reqs, received,
                   nTransport, cur, prev, heldUsed, reuse, ctx, lastResp,
                   upstream, others>>

\* The caller has the result: the call's locals and histories are dropped, the
\* client keeps its token slot.
Finished ==
    /\ pc = "done"
    /\ pc' = "idle"
    /\ call' = NoCall
    /\ req' = NoRequest
    /\ count' = 0
    /\ results' = <<>>
    /\ reply' = NoReply
    /\ ret' = NoReturn
    /\ reqs' = <<>>
    /\ received' = <<>>
    /\ nTransport' = 0
    /\ cur' = Fresh
    /\ lastResp' = NoResponse
    /\ UNCHANGED <<AccessToken, prev, heldUsed, reuse, ctx, upstream>>

Finish == Finished /\ UNCHANGED others

Next ==
    \/ \E offset \in Offsets, limit \in Limits : CallGetTimeOffs(offset, limit)
    \/ CallGetEmployee
    \/ CallGetEmployees
    \/ CallAuthenticate
    \/ DoRequestAuthenticate
    \/ DoRequestSend
    \/ DoRequestReceive
    \/ TimeOffsPage
    \/ EmployeeResult
    \/ EmployeesResult
    \/ Finish

Spec == Init /\ [][Next]_vars

\* A caller of GetTimeOffs alone, when a call in progress goes on: the
\* goroutine that runs it is scheduled again and again, and every transport
\* call returns.
NextLoop ==
    \/ \E limit \in {0, 1, timeOffsMaxLimit, timeOffsMaxLimit + 1} :
        CallGetTimeOffs(0, limit)
    \/ DoRequestAuthenticate
    \/ DoRequestSend
    \/ DoRequestReceive
    \/ TimeOffsPage
    \/ Finish

SpecLoop ==
    /\ Init
    /\ [][NextLoop]_vars
    /\ WF_vars(DoRequestAuthenticate)
    /\ WF_vars(DoRequestSend)
    /\ WF_vars(DoRequestReceive)
    /\ WF_vars(TimeOffsPage)

-----------------------------------------------------------------------------
(* A client whose context may be cancelled at any moment. *)

\* The owner of the context cancels it; a request is cut when it is in flight.
Cancel ==
    /\ ctx = "live"
    /\ ctx' = "cancelled"
    /\ cur' = [cur EXCEPT !.cut = (pc = "wait")]
    /\ UNCHANGED <<AccessToken, pc, call, req, count, results, reply, ret, reqs,
                   received, nTransport, prev, heldUsed, reuse, lastResp,
                   upstream, others>>

\* NewClient with a nil context or with a live one.
InitCtx == (\E c \in {"nil", "live"} : NewClient(c, Anything)) /\ Unused

NextCtx ==
    \/ CallGetTimeOffs(0, 1)
    \/ CallGetEmployee
    \/ CallGetEmployees
    \/ CallAuthenticate
    \/ DoRequestAuthenticate
    \/ DoRequestSend
    \/ DoRequestReceive
    \/ TimeOffsPage
    \/ EmployeeResult
    \/ EmployeesResult
    \/ Finish
    \/ Cancel

SpecCtx == InitCtx /\ [][NextCtx]_vars

-----------------------------------------------------------------------------
(* Two threads call doRequest(request, true) on one client, nothing orders    *)
(* their reads and writes of personio.secret.AccessToken.  The string is two  *)
(* words, a data pointer and a length; a write stores the two words one after *)
(* the other in either order, so a read between the two stores sees a torn    *)
(* value.  Every token issued is a fresh string, named here by the thread     *)
(* that received it.                                                          *)

Threads == {1, 2}

TokenNames ==
    << <<"a1", "a2", "a3", "a4", "a5", "a6">>, <<"b1", "b2", "b3", "b4", "b5", "b6">> >>

\* The token preset in the Credentials, and the bytes a torn string spells.
Preset == "p0"
Torn == "torn"
TokenLen == 3

\* The words of a string; the empty string has no data.
Words(v) == [data |-> v, len |-> IF v = "" THEN 0 ELSE TokenLen]

\* The string two words spell: a length without data is torn.
Value(w) == IF w.len = 0 THEN "" ELSE IF w.data = "" THEN Torn ELSE w.data

OtherWord(name) == IF name = "data" THEN "len" ELSE "data"
Store(w, name, v) ==
    IF name = "data" THEN [w EXCEPT !.data = Words(v).data]
    ELSE [w EXCEPT !.len = Words(v).len]

\* The requests thread t makes at most.
Quota(t) == IF t = 1 THEN MaxThreadRequests ELSE 1

Idle(t) == [pc |-> "idle", left |-> Quota(t), n |-> 0, header |-> "",
            wv |-> "", wleft |-> "", wnext |-> ""]

\* The n-th token thread t receives.
FreshToken(t) == TokenNames[t][thr[t].n + 1]

\* The number of the request thread t works on.
RequestNo(t) == Quota(t) - thr[t].left

\* A read of a torn string in the other thread has stopped the program.
Running == \A t \in Threads : thr[t].pc # "fault"

InitConc ==
    /\ NewClient("live", Anything)
    /\ AccessToken = ""
    /\ plan = <<>>
    /\ journal = <<>>
    /\ slot \in {Words(""), Words(Preset)}
    /\ thr = [t \in Threads |-> Idle(t)]
    /\ attached = {}
    /\ input = NoInput
    /\ output = NoOutput

\* Thread t goes to `pc` with its locals changed to `locals`.
Goto(t, pc1, locals) == thr' = [thr EXCEPT ![t] = [locals EXCEPT !.pc = pc1]]

\* Thread t begins to assign v to AccessToken: one word is stored, the other
\* is left for the next step, after which the thread goes on at `next`.
BeginWrite(t, v, next, locals) ==
    \E name \in {"data", "len"} :
        /\ slot' = Store(slot, name, v)
        /\ Goto(t, "store", [locals EXCEPT !.wv = v, !.wleft = OtherWord(name),
                                            !.wnext = next])

\* A thread enters doRequest(request, true).
ThreadCall(t) ==
    /\ Running
    /\ thr[t].pc = "idle"
    /\ thr[t].left > 0
    /\ Goto(t, "l292", [thr[t] EXCEPT !.left = @ - 1, !.header = ""])
    /\ UNCHANGED <<slot, attached, clientVars, planVars, funVars>>

\* if useAuthentication && personio.secret.AccessToken == ""
ThreadCheck(t) ==
    /\ Running
    /\ thr[t].pc = "l292"
    /\ Goto(t, IF Value(slot) = "" THEN "authenticate" ELSE "l301", thr[t])
    /\ UNCHANGED <<slot, attached, clientVars, planVars, funVars>>

\* token, err := personio.Authenticate(...): an error is returned, or the
\* token is assigned to AccessToken.
ThreadAuthenticate(t) ==
    /\ Running
    /\ thr[t].pc = "authenticate"
    /\ \/ Goto(t, "idle", thr[t]) /\ UNCHANGED slot
       \/ BeginWrite(t, FreshToken(t), "l301", [thr[t] EXCEPT !.n = @ + 1])
    /\ UNCHANGED <<attached, clientVars, planVars, funVars>>

\* The second word of an assignment to AccessToken is stored.
ThreadStore(t) ==
    /\ Running
    /\ thr[t].pc = "store"
    /\ slot' = Store(slot, thr[t].wleft, thr[t].wv)
    /\ Goto(t, thr[t].wnext, [thr[t] EXCEPT !.wv = "", !.wleft = "", !.wnext = ""])
    /\ UNCHANGED <<attached, clientVars, planVars, funVars>>

\* if useAuthentication && personio.secret.AccessToken != ""
ThreadGuard(t) ==
    /\ Running
    /\ thr[t].pc = "l301"
    /\ Goto(t, IF Value(slot) # "" THEN "l302" ELSE "do", thr[t])
    /\ UNCHANGED <<slot, attached, clientVars, planVars, funVars>>

\* request.Header.Set("Authorization", "Bearer "+personio.secret.AccessToken):
\* reading a torn string stops the program or gives bytes that are no token.
ThreadAttach(t) ==
    /\ Running
    /\ thr[t].pc = "l302"
    /\ \/ /\ Goto(t, "l303", [thr[t] EXCEPT !.header = Value(slot)])
          /\ attached' = attached \cup
                {[thread |-> t, request |-> RequestNo(t), token |-> Value(slot)]}
       \/ /\ Value(slot) = Torn
          /\ Goto(t, "fault", thr[t])
          /\ UNCHANGED attached
    /\ UNCHANGED <<slot, clientVars, planVars, funVars>>

\* personio.secret.AccessToken = "": the token attached is consumed.
ThreadConsume(t) ==
    /\ Running
    /\ thr[t].pc = "l303"
    /\ BeginWrite(t, Consume(thr[t].header), "do", thr[t])
    /\ UNCHANGED <<attached, clientVars, planVars, funVars>>

\* client.Do and the response: without a token in the authorization header
\* doRequest goes on to return, else the token is assigned to AccessToken.
ThreadDo(t) ==
    /\ Running
    /\ thr[t].pc = "do"
    /\ \/ Goto(t, "idle", thr[t]) /\ UNCHANGED slot
       \/ BeginWrite(t, FreshToken(t), "idle", [thr[t] EXCEPT !.n = @ + 1])
    /\ UNCHANGED <<attached, clientVars, planVars, funVars>>

NextConc ==
    \E t \in Threads :
        \/ ThreadCall(t)
        \/ ThreadCheck(t)
        \/ ThreadAuthenticate(t)
        \/ ThreadStore(t)
        \/ ThreadGuard(t)
        \/ ThreadAttach(t)
        \/ ThreadConsume(t)
        \/ ThreadDo(t)

SpecConc == InitConc /\ [][NextConc]_vars

-----------------------------------------------------------------------------
(* A client of the server of the tests. *)

\* The sizes of the server's result set: empty, one record, a full page, and
\* one record more than the largest limit asked for.
DataSizes == {0, 1, timeOffsMaxLimit, MaxPages * timeOffsMaxLimit + 1}

InitMock == (\E size \in DataSizes : NewClient("live", Mock(size))) /\ Unused

SpecMock == InitMock /\ [][Next]_vars

-----------------------------------------------------------------------------
(* A caller with a plan: a fixed series of GetTimeOffs calls against a server *)
(* whose result set does not change, the results kept for comparison.        *)

\* The limits a and b and the offset o of the calls of a plan.
PlanLimits == {0, 1, timeOffsMaxLimit, timeOffsMaxLimit + 1}

\* The sizes of the result set: up to more than the farthest record asked for.
PlanSizes ==
    {0, 1, timeOffsMaxLimit, timeOffsMaxLimit + 1, 2 * timeOffsMaxLimit + 1,
     2 * timeOffsMaxLimit + MaxOffset + 3}

Window(offset, limit) == [offset |-> offset, limit |-> limit]

\* A window in two parts and then in one; the same window twice.
Plans ==
    {<<Window(o, a), Window(o + a, b), Window(o, a + b)>> :
        o \in Offsets, a \in PlanLimits, b \in PlanLimits}
    \cup {<<Window(o, a), Window(o, a)>> : o \in Offsets, a \in PlanLimits}

InitData ==
    /\ \E size \in PlanSizes : NewClient("live", Dataset(size))
    /\ plan \in Plans
    /\ journal = <<>>
    /\ slot = NoSlot
    /\ thr = NoThreads
    /\ attached = {}
    /\ input = NoInput
    /\ output = NoOutput

\* The next call of the plan is made.
CallPlanned ==
    /\ plan # <<>>
    /\ GetTimeOffs(Head(plan).offset, Head(plan).limit)
    /\ plan' = Tail(plan)
    /\ UNCHANGED <<journal, threadVars, funVars>>

\* The caller keeps what the call returned.
KeepResult ==
    /\ Finished
    /\ journal' = Append(journal, [offset |-> call.offset, limit |-> call.limit,
                                   token0 |-> call.token0, ret |-> ret])
    /\ UNCHANGED <<plan, threadVars, funVars>>

NextData ==
    \/ CallPlanned
    \/ DoRequestAuthenticate
    \/ DoRequestSend
    \/ DoRequestReceive
    \/ TimeOffsPage
    \/ KeepResult

SpecData == InitData /\ [][NextData]_vars

-----------------------------------------------------------------------------
(* The attribute decoder: Attribute.GetIntValue, GetFloatValue,               *)
(* GetStringValue, GetListValue, GetTimeValue and GetMapValue, as functions   *)
(* of an attribute.  A string is the sequence of its characters; a float64 is       *)
(* counted in halves; a time.Time is the record of its fields.                *)

\* The strings of the raw values.
DateTimeUtc ==
    <<"2", "0", "2", "2", "-", "0", "1", "-", "1", "2", "T", "0", "0", ":",
      "0", "0", ":", "0", "0", "Z">>
DateTimeZone ==
    <<"2", "0", "2", "2", "-", "0", "5", "-", "0", "5", "T", "2", "3", ":",
      "5", "9", ":", "5", "9", "+", "0", "2", ":", "0", "0">>
DateOnly ==
    <<"2", "0", "2", "2", "-", "0", "1", "-", "1", "2">>
DateMonth13 ==
    <<"2", "0", "2", "2", "-", "1", "3", "-", "1", "2", "T", "0", "0", ":",
      "0", "0", ":", "0", "0", "Z">>
ListPlain ==
    <<"a", ",", "b", ",", ",", "c">>
ListSpaces ==
    <<"a", ",", " ", "b">>
ListCommas ==
    <<",", "a", ",">>
ListBlank ==
    <<"a", ",", " ", ",", "b">>
Word3 == <<"a", "b", "c">>

Strings ==
    {DateTimeUtc, DateTimeZone, DateOnly, DateMonth13, ListPlain, ListSpaces,
     ListCommas, ListBlank, Word3, <<>>}

\* float64 values, in halves: 42, 1.5, -1.5, 0.
Halves == {84, 3, -3, 0}

Instant(year, month, day, hour, minute, second, zone) ==
    [year |-> year, month |-> month, day |-> day, hour |-> hour,
     minute |-> minute, second |-> second, zone |-> zone]

\* The shapes of Attribute.Value (interface{}): nil, what encoding/json decodes
\* into an interface{} (float64, string, bool, map, slice), and time.Time.
NilValue == [shape |-> "nil"]
Float64(h) == [shape |-> "float64", halves |-> h]
StringValue(str) == [shape |-> "string", str |-> str]
TimeValue(t) == [shape |-> "time", time |-> t]


\* A map[string]interface{}: the nil map, or a map with its entries (a function
\* of its keys).  Reading either at a key it does not hold gives nil.
NilMap == [isNil |-> TRUE, entries |-> <<>>]
MakeMap(entries) == [isNil |-> FALSE, entries |-> entries]
MapValue(m) == [shape |-> "map", m |-> m]

\* The objects of a raw value: {}, {"attributes": ...} with an object, an empty
\* object, a string and null in it, an object without "attributes", and a nil
\* map a caller has put in the attribute.
RawValues ==
    {NilValue} \cup {Float64(h) : h \in Halves} \cup {StringValue(str) : str \in Strings}
        \cup {[shape |-> sh] : sh \in {"bool", "slice"}}
        \cup {MapValue(m) : m \in
                {MakeMap(<<>>),
                 MakeMap([attributes |-> MapValue(MakeMap([name |-> StringValue(Word3)]))]),
                 MakeMap([attributes |-> MapValue(MakeMap(<<>>))]),
                 MakeMap([attributes |-> StringValue(Word3)]),
                 MakeMap([attributes |-> NilValue]),
                 MakeMap([type |-> StringValue(Word3)]),
                 NilMap}}
        \cup {TimeValue(Instant(2022, 1, 12, 0, 0, 0, 0))}

\* Attribute.Type: the tags the getters know, another tag, and no tag.
TypeTags ==
    {"integer", "decimal", "standard", "multiline", "list", "date", "link", ""}

Attributes == [Type : TypeTags, Value : RawValues]

\* What a getter returns: nil, or a pointer to a value.
NoValue == [some |-> FALSE]
Some(v) == [some |-> TRUE, value |-> v]

\* int64(f): the fraction is cut off, towards zero.
Int64(h) == IF h >= 0 THEN h \div 2 ELSE -((-h) \div 2)

\* The number a sequence of decimal digits spells, -1 if one is not a digit.
Digits == <<"0", "1", "2", "3", "4", "5", "6", "7", "8", "9">>
DigitOf(c) == IF \E d \in 1..10 : Digits[d] = c
              THEN (CHOOSE d \in 1..10 : Digits[d] = c) - 1 ELSE -1

RECURSIVE Atoi(_, _)
Atoi(str, acc) ==
    IF str = <<>> THEN acc
    ELSE IF DigitOf(Head(str)) < 0 THEN -1
    ELSE Atoi(Tail(str), 10 * acc + DigitOf(Head(str)))

Number(str, from, to) == Atoi(SubSeq(str, from, to), 0)

\* time.Parse(time.RFC3339, str) for strings without a fraction of a second:
\* "2006-01-02T15:04:05" and then "Z" or a zone "+07:00" or "-07:00".
ParseRFC3339(str) ==
    LET n == Len(str)
        sep == /\ str[5] = "-" /\ str[8] = "-" /\ str[11] = "T"
               /\ str[14] = ":" /\ str[17] = ":"
        year == Number(str, 1, 4)
        month == Number(str, 6, 7)
        day == Number(str, 9, 10)
        hour == Number(str, 12, 13)
        minute == Number(str, 15, 16)
        second == Number(str, 18, 19)
        zoned == n = 25 /\ str[20] \in {"+", "-"} /\ str[23] = ":"
        zh == Number(str, 21, 22)
        zm == Number(str, 24, 25)
        zone == IF n = 20 THEN 0
                ELSE IF str[20] = "-" THEN -(60 * zh + zm) ELSE 60 * zh + zm
        ok == /\ n >= 20
              /\ sep
              /\ (n = 20 /\ str[20] = "Z") \/ (zoned /\ zh \in 0..23 /\ zm \in 0..59)
              /\ year >= 0
              /\ month \in 1..12
              /\ day \in 1..31
              /\ hour \in 0..23
              /\ minute \in 0..59
              /\ second \in 0..59
    IN IF ok THEN [err |-> FALSE,
                   time |-> Instant(year, month, day, hour, minute, second, zone)]
       ELSE [err |-> TRUE]

\* strings.FieldsFunc(str, func(char rune) bool { return char == ',' }): the
\* maximal runs of characters that are no commas, in order; `field` is the run
\* read so far.
RECURSIVE FieldsFrom(_, _)
FieldsFrom(str, field) ==
    IF str = <<>> THEN (IF field = <<>> THEN <<>> ELSE <<field>>)
    ELSE IF Head(str) = ","
        THEN (IF field = <<>> THEN <<>> ELSE <<field>>) \o FieldsFrom(Tail(str), <<>>)
    ELSE FieldsFrom(Tail(str), Append(field, Head(str)))

FieldsFunc(str) == FieldsFrom(str, <<>>)

GetIntValue(a) ==
    IF a.Type = "integer" /\ a.Value # NilValue /\ a.Value.shape = "float64"
    THEN Some(Int64(a.Value.halves)) ELSE NoValue

\* Mutant of GetFloatValue: an integer attribute has no float value.
GetFloatValueDecimalOnly(a) ==
    IF a.Type = "decimal" /\ a.Value # NilValue /\ a.Value.shape = "float64"
    THEN Some(a.Value.halves) ELSE NoValue

GetFloatValue(a) ==
    IF (a.Type = "integer" \/ a.Type = "decimal") /\ a.Value # NilValue
        /\ a.Value.shape = "float64"
    THEN Some(a.Value.halves) ELSE NoValue

GetStringValue(a) ==
    IF (a.Type = "standard" \/ a.Type = "multiline") /\ a.Value # NilValue
        /\ a.Value.shape = "string"
    THEN Some(a.Value.str) ELSE NoValue

GetListValue(a) ==
    IF a.Type = "list" /\ a.Value # NilValue /\ a.Value.shape = "string"
    THEN Some(FieldsFunc(a.Value.str)) ELSE NoValue

GetTimeValue(a) ==
    IF a.Type = "date" /\ a.Value # NilValue
    THEN IF a.Value.shape = "string"
         THEN LET parsed == ParseRFC3339(a.Value.str) IN
              IF ~parsed.err THEN Some(parsed.time) ELSE NoValue
         ELSE IF a.Value.shape = "time" THEN Some(a.Value.time)
         ELSE NoValue
    ELSE NoValue

\* v.(map[string]interface{}) with the comma-ok form: the map in v, or the nil
\* map when v holds anything else (or nothing).
AssertMap(v) == IF v.shape = "map" THEN v.m ELSE NilMap

\* m[key]: the value at the key, nil when the map does not hold it.
MapIndex(m, key) ==
    IF ~m.isNil /\ key \in DOMAIN m.entries THEN m.entries[key] ELSE NilValue

GetMapValue(a) ==
    IF a.Type = "standard" /\ a.Value # NilValue
    THEN LET nested == AssertMap(a.Value)
             nestedAttributes == AssertMap(MapIndex(nested, "attributes"))
         IN nestedAttributes
    ELSE MakeMap(<<>>)

\* An attribute as decoded from a response, or made by the caller.
InitAttr ==
    /\ NewClient("live", Anything)
    /\ AccessToken = ""
    /\ plan = <<>>
    /\ journal = <<>>
    /\ slot = NoSlot
    /\ thr = NoThreads
    /\ attached = {}
    /\ input \in Attributes
    /\ output = NoOutput

\* A getter is called on the attribute and returns `result`.
Returned(fn, result) == [fn |-> fn, result |-> result]

CallGetIntValue ==
    /\ output' = Returned("GetIntValue", GetIntValue(input))
    /\ UNCHANGED <<input, clientVars, planVars, threadVars>>

CallGetFloatValue ==
    /\ output' = Returned("GetFloatValue", GetFloatValue(input))
    /\ UNCHANGED <<input, clientVars, planVars, threadVars>>

CallGetStringValue ==
    /\ output' = Returned("GetStringValue", GetStringValue(input))
    /\ UNCHANGED <<input, clientVars, planVars, threadVars>>

CallGetListValue ==
    /\ output' = Returned("GetListValue", GetListValue(input))
    /\ UNCHANGED <<input, clientVars, planVars, threadVars>>

CallGetTimeValue ==
    /\ output' = Returned("GetTimeValue", GetTimeValue(input))
    /\ UNCHANGED <<input, clientVars, planVars, threadVars>>

CallGetMapValue ==
    /\ output' = Returned("GetMapValue", GetMapValue(input))
    /\ UNCHANGED <<input, clientVars, planVars, threadVars>>

NextAttr ==
    \/ CallGetMapValue
    \/ CallGetIntValue
    \/ CallGetFloatValue
    \/ CallGetStringValue
    \/ CallGetListValue
    \/ CallGetTimeValue

SpecAttr == InitAttr /\ [][NextAttr]_vars

-----------------------------------------------------------------------------
(* An AttributeContainer and its by-key getters: `input` is the container    *)
(* (its map Attributes) and the key asked for.                               *)

\* Attribute{}: what reading a map[string]Attribute gives at a key it does
\* not hold.
ZeroAttribute == [Type |-> "", Value |-> NilValue]

\* Mutant of AttributeAt: a key the map does not hold reads as an integer.
AttributeAtInteger(m, key) ==
    IF ~m.isNil /\ key \in DOMAIN m.entries THEN m.entries[key]
    ELSE [Type |-> "integer", Value |-> Float64(84)]

\* ac.Attributes[key]
AttributeAt(m, key) ==
    IF ~m.isNil /\ key \in DOMAIN m.entries THEN m.entries[key] ELSE ZeroAttribute

\* The attributes of a container: one for each getter, one with another tag,
\* and the zero attribute.
Entries ==
    {[Type |-> "integer", Value |-> Float64(84)],
     [Type |-> "standard", Value |-> StringValue(Word3)],
     [Type |-> "list", Value |-> StringValue(ListPlain)],
     [Type |-> "date", Value |-> StringValue(DateTimeUtc)],
     [Type |-> "standard",
      Value |-> MapValue(MakeMap([attributes |-> MapValue(MakeMap(<<>>))]))],
     [Type |-> "link", Value |-> StringValue(Word3)],
     ZeroAttribute}

\* The maps of a container, with some of the keys "first_name" and "age"; the
\* nil map is the one of a container decoded from an object without
\* "attributes".
Containers ==
    {NilMap} \cup
    {MakeMap(f) : f \in UNION {[ks -> Entries] : ks \in SUBSET {"first_name", "age"}}}

InitContainer ==
    /\ NewClient("live", Anything)
    /\ AccessToken = ""
    /\ plan = <<>>
    /\ journal = <<>>
    /\ slot = NoSlot
    /\ thr = NoThreads
    /\ attached = {}
    /\ input \in [Attributes : Containers, key : {"first_name", "age", "team"}]
    /\ output = NoOutput

CallGetIntAttribute ==
    /\ LET attr == AttributeAt(input.Attributes, input.key) IN
        output' = Returned("GetIntAttribute", GetIntValue(attr))
    /\ UNCHANGED <<input, clientVars, planVars, threadVars>>

CallGetFloatAttribute ==
    /\ LET attr == AttributeAt(input.Attributes, input.key) IN
        output' = Returned("GetFloatAttribute", GetFloatValue(attr))
    /\ UNCHANGED <<input, clientVars, planVars, threadVars>>

CallGetStringAttribute ==
    /\ LET attr == AttributeAt(input.Attributes, input.key) IN
        output' = Returned("GetStringAttribute", GetStringValue(attr))
    /\ UNCHANGED <<input, clientVars, planVars, threadVars>>

CallGetListAttribute ==
    /\ LET attr == AttributeAt(input.Attributes, input.key) IN
        output' = Returned("GetListAttribute", GetListValue(attr))
    /\ UNCHANGED <<input, clientVars, planVars, threadVars>>

CallGetTimeAttribute ==
    /\ LET attr == AttributeAt(input.Attributes, input.key) IN
        output' = Returned("GetTimeAttribute", GetTimeValue(attr))
    /\ UNCHANGED <<input, clientVars, planVars, threadVars>>

CallGetMapAttribute ==
    /\ LET attr == AttributeAt(input.Attributes, input.key) IN
        output' = Returned("GetMapAttribute", GetMapValue(attr))
    /\ UNCHANGED <<input, clientVars, planVars, threadVars>>

NextContainer ==
    \/ CallGetIntAttribute
    \/ CallGetFloatAttribute
    \/ CallGetStringAttribute
    \/ CallGetListAttribute
    \/ CallGetTimeAttribute
    \/ CallGetMapAttribute

SpecContainer == InitContainer /\ [][NextContainer]_vars

-----------------------------------------------------------------------------
(* util.GetTimeIntersection.  A time.Time is the number of its day, counted  *)
(* from the zero Time (0001-01-01); a time.Duration is counted in days.      *)

\* The largest time.Duration in whole days: a Duration is an int64 count of
\* nanoseconds, of which 2^63 - 1 are 106751 days and a part of a day.
MaxDuration == 106751

\* t.Sub(u): the duration t - u; beyond the largest or the smallest Duration
\* the largest or the smallest Duration is returned.
Sub(t, u) ==
    IF t - u > MaxDuration THEN MaxDuration
    ELSE IF t - u < -MaxDuration THEN -MaxDuration
    ELSE t - u

GetTimeIntersection(start1, end1, start2, end2) ==
    LET endMin == IF end2 < end1 THEN end2 ELSE end1
        startMax == IF start2 > start1 THEN start2 ELSE start1
    IN Sub(endMin, startMax)

\* Two ranges with start <= end each, of the zero Time, the days 106752 and
\* 106751 days before 2021-01-01, 2021-01-01, 2021-01-08 and PersonioDateMax
\* (9999-12-31).
InitUtil ==
    /\ NewClient("live", Anything)
    /\ AccessToken = ""
    /\ plan = <<>>
    /\ journal = <<>>
    /\ slot = NoSlot
    /\ thr = NoThreads
    /\ attached = {}
    /\ input \in
        {r \in [start1 : {0, 631038, 631039, 737790, 737797, 3652058},
                end1 : {0, 631038, 631039, 737790, 737797, 3652058},
                start2 : {0, 631038, 631039, 737790, 737797, 3652058},
                end2 : {0, 631038, 631039, 737790, 737797, 3652058}] :
            r.start1 <= r.end1 /\ r.start2 <= r.end2}
    /\ output = NoOutput

CallGetTimeIntersection ==
    /\ output' = Returned("GetTimeIntersection",
                          GetTimeIntersection(input.start1, input.end1,
                                              input.start2, input.end2))
    /\ UNCHANGED <<input, clientVars, planVars, threadVars>>

SpecUtil == InitUtil /\ [][CallGetTimeIntersection]_vars

-----------------------------------------------------------------------------
(* Properties. *)

Min(a, b) == IF a < b THEN a ELSE b

\* The records of the pages ps, one page after the other.
RECURSIVE Flatten(_)
Flatten(ps) == IF ps = <<>> THEN <<>> ELSE Data(Head(ps)) \o Flatten(Tail(ps))

\* The records received in the pages answered to the range queries before the k-th.
RECURSIVE Fetched(_)
Fetched(k) == IF k <= 1 THEN 0 ELSE Fetched(k - 1) + reqs[k - 1].got

\* GetTimeOffs has returned without an error.
TimeOffsReturned ==
    pc = "done" /\ call.op = "GetTimeOffs" /\ ret.err = NoError

\* The k-th range query was answered with fewer records than it asked for.
ShortAnswer(k) == reqs[k].state = "page" /\ reqs[k].got < reqs[k].limit

\* C1: a GetTimeOffs call that returns without error returns at most `limit`
\* records.
C1_AtMostLimit == TimeOffsReturned => Len(ret.value) <= call.limit

\* C2: once a page holds fewer records than the step size asked for, the call
\* has returned and no further range query follows that page, also when fewer
\* than `limit` records were fetched.
C2_StopsAfterShortPage ==
    \A k \in 1..Len(reqs) : ShortAnswer(k) => k = Len(reqs) /\ pc = "done"

C2_Witness ==
    /\ TimeOffsReturned
    /\ Len(reqs) = 2
    /\ ShortAnswer(2)
    /\ reqs[2].got > 0
    /\ Len(ret.value) < call.limit

\* C3: the sequence a successful GetTimeOffs call returns is the concatenation of
\* the pages received, in the order received.
C3_Concatenation == TimeOffsReturned => ret.value = Flatten(received)

\* C4: every range query asks for min(limit - fetched, timeOffsMaxLimit) records,
\* which is at least 1 and at most timeOffsMaxLimit.
C4_StepSize ==
    \A k \in 1..Len(reqs) :
        /\ reqs[k].limit = Min(call.limit - Fetched(k), timeOffsMaxLimit)
        /\ 1 <= reqs[k].limit
        /\ reqs[k].limit <= timeOffsMaxLimit

C4_Witness ==
    /\ Len(reqs) = 2
    /\ call.limit > timeOffsMaxLimit
    /\ reqs[1].limit = timeOffsMaxLimit
    /\ reqs[2].limit < timeOffsMaxLimit

\* C5: the offset of the k-th range query is the caller's offset plus the number
\* of records received in the k-1 pages before it.
C5_QueryOffsets ==
    \A k \in 1..Len(reqs) : reqs[k].offset = call.offset + Fetched(k)

C5_Witness ==
    /\ Len(reqs) = 2
    /\ call.offset > 0
    /\ reqs[1].got > timeOffsMaxLimit
    /\ reqs[2].offset = call.offset + reqs[1].got

\* C6: GetTimeOffs with limit 0 returns the empty sequence without error, issues
\* no transport call and leaves the token slot as it was.
C6_LimitZero ==
    (pc = "done" /\ call.op = "GetTimeOffs" /\ call.limit = 0) =>
        /\ ret = [err |-> NoError, value |-> <<>>]
        /\ nTransport = 0
        /\ reqs = <<>>
        /\ AccessToken = call.token0

C6_Witness ==
    /\ pc = "done"
    /\ call.op = "GetTimeOffs"
    /\ call.limit = 0
    /\ call.token0 # ""
    /\ prev.exists

\* C7: a GetTimeOffs call one of whose pages fails (in the authentication
\* exchange, the transport, the status, the envelope or the decoding) returns
\* that error and no records, and the failing request is its last one.
C7_ErrorAborts ==
    /\ \A k \in 1..Len(reqs) :
        reqs[k].state = "failed" =>
            k = Len(reqs) /\ pc = "done" /\ ret.err # NoError
    /\ (pc = "done" /\ call.op = "GetTimeOffs") =>
        /\ reply.err # NoError => ret.err = reply.err
        /\ reply.body.kind = "badshape" => ret.err # NoError
        /\ (cur.authRan /\ ~cur.sent) => ret.err # NoError
        /\ ret.err # NoError => ret.value = <<>>

C7_Witness ==
    /\ pc = "done"
    /\ call.op = "GetTimeOffs"
    /\ ret.err # NoError
    /\ ret.value = <<>>
    /\ Len(reqs) = 2
    /\ reqs[1].state = "page"
    /\ reqs[1].got > 0
    /\ reqs[2].state = "failed"

\* C8: of two authenticated requests in a row, the second carries the token of the
\* rotation header of the first response and runs no authentication exchange;
\* without such a header the second runs an authentication exchange before it
\* is sent.
C8_Rotation ==
    (pc = "wait" /\ prev.exists) =>
        IF prev.rot # ""
        THEN cur.tok = prev.rot /\ ~cur.authRan
        ELSE cur.authRan

C8_Witness ==
    /\ pc = "wait"
    /\ prev.exists
    /\ prev.rot = "jkl"
    /\ cur.tok = "jkl"
    /\ req.authorization = BearerHeader("jkl")
    /\ ~cur.authRan

\* C9: a token acquisition is attached to at most one request; from the moment it
\* is attached the slot is empty, until an authentication exchange or a rotation
\* header fills it.
C9_SingleUse ==
    /\ ~reuse
    /\ heldUsed => AccessToken = ""
    /\ (pc = "wait" /\ cur.tok # "") => AccessToken = ""

C9_Witness ==
    /\ pc = "wait"
    /\ prev.exists
    /\ cur.tok # ""
    /\ heldUsed
    /\ AccessToken = ""

\* C10: every request an authenticated call sends carries a non-empty bearer
\* token.
C10_BearerOnEveryRequest ==
    pc = "wait" => HeaderToken(req.authorization) # ""

-----------------------------------------------------------------------------
(* Properties of the errors and of GetEmployees. *)

\* A call has returned no data: nil, or the empty token for Authenticate.
NoData == IF call.op = "Authenticate" THEN ret.value = <<"">> ELSE ret.value = <<>>

\* The last response of the call has a status outside 200..299.
BadStatus == lastResp.kind = "http" /\ lastResp.status \notin 200..299

\* The last response of the call has a 2xx status and a success=false envelope.
FailedEnvelope ==
    /\ lastResp.kind = "http"
    /\ lastResp.status \in 200..299
    /\ lastResp.body.kind = "fail"

\* C15: GetEmployees returns every employee of upstream's result set, those
\* after the first page as well.
C15_AllEmployees ==
    (pc = "done" /\ call.op = "GetEmployees" /\ ret.err = NoError) =>
        Len(ret.value) = reply.body.n + reply.body.rest

\* C16: a response with a status outside 200..299, to the authentication
\* exchange or to a data request, makes the call return an error that carries
\* exactly that status code, and no data.
C16_StatusError ==
    /\ (pc = "decode" /\ BadStatus) =>
        HasStatus(reply.err) /\ reply.err.code = lastResp.status
    /\ (pc = "done" /\ BadStatus) =>
        /\ HasStatus(ret.err)
        /\ ret.err.code = lastResp.status
        /\ NoData

C16_Witness ==
    /\ pc = "done"
    /\ call.op = "GetEmployee"
    /\ cur.sent
    /\ lastResp.status = 404
    /\ ret = [err |-> StatusError(404), value |-> <<>>]

\* C17: a 2xx response whose envelope says success=false makes the call return an
\* error that spells the code and the message of the envelope and has no HTTP
\* status, and no data.
C17_EnvelopeError ==
    /\ (pc = "decode" /\ FailedEnvelope) => reply.err.kind = "envelope"
    /\ (pc = "done" /\ FailedEnvelope) =>
        /\ ret.err.kind = "envelope"
        /\ ret.err.text = <<"code=", lastResp.body.error.code,
                            "message=", lastResp.body.error.message>>
        /\ ~HasStatus(ret.err)
        /\ NoData

C17_Witness ==
    /\ pc = "done"
    /\ call.op = "GetTimeOffs"
    /\ Len(reqs) = 2
    /\ FailedEnvelope
    /\ lastResp.body.error = [code |-> 42, message |-> "quota"]
    /\ ret.err = EnvelopeError(42, "quota")
    /\ ret.value = <<>>

\* The error of a failed client.Do, by the context it failed with.
DoFailure == IF lastResp.ctx = "cancelled" THEN Err("cancelled") ELSE Err("transport")

\* C18: when client.Do fails and the context is cancelled, the request in flight
\* is given up and the call returns the context's cancellation error, which is
\* not the error of a transport failure; when client.Do fails and the context
\* is live (or there is none) the call returns the transport's error.
C18_Cancellation ==
    /\ (pc = "decode" /\ lastResp.kind = "neterr") => reply.err = DoFailure
    /\ (pc = "done" /\ lastResp.kind = "neterr") => ret.err = DoFailure /\ NoData
    /\ (pc \in {"decode", "done"} /\ cur.cut) =>
            reply.err = Err("cancelled") /\ Err("cancelled") # Err("transport")

C18_Witness ==
    /\ pc = "done"
    /\ call.op = "GetEmployee"
    /\ cur.sent
    /\ cur.cut
    /\ lastResp.kind = "neterr"
    /\ ret = [err |-> Err("cancelled"), value |-> <<>>]

\* C12: against the server of the tests, which takes a token only if it is not
\* the one it took last and sets a rotation header on every request it takes,
\* no response in a series of calls of one client has status 401 and no call
\* returns a 401 error, whatever the calls are and however they end.
C12_NoRejection ==
    /\ ~(lastResp.kind = "http" /\ lastResp.status = 401)
    /\ ~(HasStatus(reply.err) /\ reply.err.code = 401)
    /\ ~(HasStatus(ret.err) /\ ret.err.code = 401)

C12_Witness ==
    /\ upstream.mode = "mock"
    /\ pc = "done"
    /\ call.op = "GetTimeOffs"
    /\ call.token0 # ""
    /\ Len(reqs) = 3
    /\ ret.err = NoError
    /\ Len(ret.value) = 2 * timeOffsMaxLimit + 1
    /\ upstream.lastToken \in Tokens
    /\ AccessToken \in Tokens \ {upstream.lastToken}

-----------------------------------------------------------------------------
(* Properties of a series of calls against an unchanged result set. *)

Calls == 1..Len(journal)

\* C13: when no call fails, the records of the window (o, a) followed by those
\* of the window (o + a, b) are the records of the window (o, a + b).
C13_SplitWindow ==
    \A i, j, k \in Calls :
        (/\ journal[j].offset = journal[i].offset + journal[i].limit
         /\ journal[k].offset = journal[i].offset
         /\ journal[k].limit = journal[i].limit + journal[j].limit
         /\ \A c \in {i, j, k} : journal[c].ret.err = NoError)
        => journal[i].ret.value \o journal[j].ret.value = journal[k].ret.value

C13_Witness ==
    /\ Len(journal) = 3
    /\ upstream.size > 2 * timeOffsMaxLimit + 1
    /\ journal[1].offset = 1
    /\ journal[1].limit = timeOffsMaxLimit
    /\ journal[2].offset = timeOffsMaxLimit + 1
    /\ journal[2].limit = timeOffsMaxLimit + 1
    /\ journal[3].offset = 1
    /\ journal[3].limit = 2 * timeOffsMaxLimit + 1
    /\ \A c \in Calls : journal[c].ret.err = NoError
    /\ Len(journal[3].ret.value) = 2 * timeOffsMaxLimit + 1
    /\ journal[1].ret.value \o journal[2].ret.value = journal[3].ret.value

\* C14: two calls with the same offset and limit return the same: the same
\* records in the same order, or both none, whether the call started with a
\* held token or with an empty slot.
C14_SameTwice ==
    \A i, j \in Calls :
        (journal[i].offset = journal[j].offset /\ journal[i].limit = journal[j].limit)
        => journal[i].ret = journal[j].ret

C14_Witness ==
    /\ Len(journal) = 2
    /\ journal[1].offset = journal[2].offset
    /\ journal[1].limit = journal[2].limit
    /\ journal[1].token0 # ""
    /\ journal[2].token0 = ""
    /\ journal[1].ret.err = NoError
    /\ Len(journal[1].ret.value) = timeOffsMaxLimit + 1
    /\ journal[2].ret = journal[1].ret

-----------------------------------------------------------------------------
(* Properties of two threads on one client. *)

\* The tokens upstream issued (not the empty string, not torn bytes).
Issued(token) == token \notin {"", Torn}

\* C11: with two threads on one client the same token is attached to two
\* requests only by different threads, a thread never attaches a token it has
\* attached before; the state in which both threads have attached the same
\* token is reachable.
C11_ReuseAcrossThreads ==
    \A x, y \in attached :
        (x # y /\ x.token = y.token /\ Issued(x.token)) => x.thread # y.thread

C11_Witness ==
    \E x, y \in attached :
        /\ x.thread = 1
        /\ y.thread = 2
        /\ x.token = y.token
        /\ Issued(x.token)
        /\ x.token # Preset

-----------------------------------------------------------------------------
(* Properties of the attribute decoder. *)

Called(fn) == output # NoOutput /\ output.fn = fn

\* The gating table: the tag and the shape of the raw value a getter asks for.
Numeric == input.Value.shape = "float64"
DateTime ==
    \/ input.Value.shape = "time"
    \/ input.Value.shape = "string" /\ input.Value.str \in {DateTimeUtc, DateTimeZone}

IsSpace(c) == c \in {" ", "\t"}

RECURSIVE TrimLeft(_)
TrimLeft(str) ==
    IF str # <<>> /\ IsSpace(Head(str)) THEN TrimLeft(Tail(str)) ELSE str

RECURSIVE TrimRight(_)
TrimRight(str) ==
    IF str # <<>> /\ IsSpace(str[Len(str)])
    THEN TrimRight(SubSeq(str, 1, Len(str) - 1)) ELSE str

Trim(str) == TrimRight(TrimLeft(str))

\* The pieces of a string between its commas, empty ones as well, in order.
RECURSIVE Pieces(_, _)
Pieces(str, piece) ==
    IF str = <<>> THEN <<piece>>
    ELSE IF Head(str) = "," THEN <<piece>> \o Pieces(Tail(str), <<>>)
    ELSE Pieces(Tail(str), Append(piece, Head(str)))

\* The trimmed pieces that are not empty, in order.
RECURSIVE TrimmedTokens(_)
TrimmedTokens(ps) ==
    IF ps = <<>> THEN <<>>
    ELSE (IF Trim(Head(ps)) = <<>> THEN <<>> ELSE <<Trim(Head(ps))>>)
            \o TrimmedTokens(Tail(ps))

\* C20: GetListValue of an attribute with tag "list" and a string raw value
\* returns the tokens between the commas in their order, each without the white
\* space around it, the empty ones dropped.
C20_TrimmedTokens ==
    (Called("GetListValue") /\ input.Type = "list" /\ input.Value.shape = "string")
    => output.result = Some(TrimmedTokens(Pieces(input.Value.str, <<>>)))

\* The `attributes` sub-object of the raw value, if the raw value is an object
\* that holds one.
HasSubObject ==
    /\ input.Value.shape = "map"
    /\ MapIndex(input.Value.m, "attributes").shape = "map"
    /\ ~MapIndex(input.Value.m, "attributes").m.isNil

\* C21: GetMapValue never returns a nil map: it returns the `attributes`
\* sub-object of the raw value when the tag is "standard" and the raw value
\* is an object that holds one, and an empty map in every other case.
C21_MapNeverNil ==
    Called("GetMapValue") =>
        /\ ~output.result.isNil
        /\ output.result =
            IF input.Type = "standard" /\ HasSubObject
            THEN MapIndex(input.Value.m, "attributes").m
            ELSE MakeMap(<<>>)

-----------------------------------------------------------------------------
(* Properties of the by-key getters of a container. *)

\* The container does not hold the key asked for.
Absent == input.Attributes.isNil \/ input.key \notin DOMAIN input.Attributes.entries

\* The container holds the key, with a tag none of the five getters takes.
OtherTag ==
    /\ ~Absent
    /\ input.Attributes.entries[input.key].Type \in {"link", ""}

ByKeyGetters ==
    {"GetIntAttribute", "GetFloatAttribute", "GetStringAttribute",
     "GetListAttribute", "GetTimeAttribute"}

\* C22: a by-key getter (integer, float, string, list, time) called with a
\* key the container does not hold returns no value, as it does for a held
\* attribute with another tag, and the call leaves the container as it was.
C22_AbsentKey ==
    [][(output'.fn \in ByKeyGetters /\ (Absent \/ OtherTag))
        => (output'.result = NoValue /\ input' = input)]_vars

C22_Witness ==
    /\ input.key = "team"
    /\ input.Attributes \notin {NilMap, MakeMap(<<>>)}
    /\ output = Returned("GetIntAttribute", NoValue)

-----------------------------------------------------------------------------
(* Properties of the unpack step and of the loop of GetTimeOffs. *)

\* The records of the pages received during this call.
ReceivedRecords == {Flatten(received)[x] : x \in 1..Len(Flatten(received))}

\* C23: whatever the sizes of the pages, every position of the sequence a
\* successful GetTimeOffs call returns holds a record (none is nil) and every
\* record received is in the sequence (none is overwritten or lost).
C23_NoNilSlot ==
    TimeOffsReturned =>
        /\ \A x \in 1..Len(ret.value) : ret.value[x] # Nil
        /\ \A record \in ReceivedRecords :
            \E x \in 1..Len(ret.value) : ret.value[x] = record

\* C24: for every page i (from 0) kept in results and every position j (from
\* 0) of it the index i*timeOffsMaxLimit + j of the unpack step is smaller
\* than count, the length of the result (stated for the last position of the
\* page, which has the largest index); no GetTimeOffs call ends in an index
\* out of range.
C24_InBounds ==
    /\ \A i \in 1..Len(results) :
        LET j == results[i].n - 1 IN
        j >= 0 => (i - 1) * timeOffsMaxLimit + j < count
    /\ pc = "done" => ret.err # Err("panic")

C24_Witness ==
    /\ TimeOffsReturned
    /\ Len(results) = MaxPages
    /\ results[1].n > timeOffsMaxLimit
    /\ results[MaxPages].n = 1
    /\ Len(ret.value) = count

\* The number of range queries a call with this limit may issue:
\* ceil(limit / timeOffsMaxLimit).
MaxQueries(limit) == (limit + timeOffsMaxLimit - 1) \div timeOffsMaxLimit

\* C25: a GetTimeOffs call returns when every transport call returns; every
\* range query but the last one of the call adds at least the step size asked
\* for to the count of records fetched, and the call issues at most
\* ceil(limit / timeOffsMaxLimit) range queries.
C25_Terminates ==
    /\ [](call.op = "GetTimeOffs" =>
            /\ Len(reqs) <= MaxQueries(call.limit)
            /\ \A k \in 1..(Len(reqs) - 1) :
                reqs[k + 1].fetched - reqs[k].fetched >= reqs[k].limit)
    /\ (call.op = "GetTimeOffs") ~> (call.op = "GetTimeOffs" /\ pc = "done")

C25_Witness ==
    /\ TimeOffsReturned
    /\ call.limit = timeOffsMaxLimit + 1
    /\ Len(reqs) = MaxQueries(call.limit)
    /\ Len(ret.value) = call.limit

-----------------------------------------------------------------------------
(* Properties of the token slot around errors and around Authenticate. *)

\* The last authenticated request was answered with a status that is not 2xx
\* and with a rotation header.
RotatedWithBadStatus == prev.exists /\ ~prev.ok /\ prev.rot # ""

\* C26: the token of the rotation header of a response with a status that is
\* not 2xx is stored: when the call has returned its status error the slot
\* holds that token, and the next authenticated request carries it and runs
\* no authentication exchange.
C26_RotationOnError ==
    /\ (pc = "done" /\ call.op # "Authenticate" /\ BadStatus /\ RotatedWithBadStatus) =>
        /\ HasStatus(ret.err)
        /\ ret.err.code = lastResp.status
        /\ AccessToken = prev.rot
    /\ (pc = "wait" /\ RotatedWithBadStatus) =>
        /\ req.authorization = BearerHeader(prev.rot)
        /\ ~cur.authRan
        /\ nTransport = 1

C26_Witness ==
    /\ pc = "wait"
    /\ RotatedWithBadStatus
    /\ prev.rot = "jkl"
    /\ call.token0 = "jkl"
    /\ req.authorization = BearerHeader("jkl")
    /\ nTransport = 1

\* The authentication exchange failed: no response, a status that is not 2xx,
\* or a body that is not a success envelope with a token object.
AuthFailed(resp) ==
    \/ resp.kind # "http"
    \/ resp.status \notin 200..299
    \/ resp.body.kind # "ok"

\* C27: when doRequest finds the slot empty and the authentication exchange
\* fails, the call returns with the error of the exchange (the status error
\* of a status that is not 2xx), the data request is not sent and the slot is
\* still empty.
C27_AuthFailure ==
    [][(pc = "auth" /\ AccessToken = "" /\ lastResp'.kind # "none"
            /\ AuthFailed(lastResp'))
        => /\ pc' = "done"
           /\ ret'.err # NoError
           /\ BadStatus' => ret'.err = StatusError(lastResp'.status)
           /\ ret'.value = <<>>
           /\ ~cur'.sent
           /\ reqs' = reqs
           /\ nTransport' = nTransport + 1
           /\ AccessToken' = ""]_vars

C27_Witness ==
    /\ pc = "done"
    /\ call.op = "GetTimeOffs"
    /\ call.token0 = ""
    /\ cur.authRan
    /\ ~cur.sent
    /\ ret.err = StatusError(401)
    /\ reqs = <<>>
    /\ nTransport = 1
    /\ AccessToken = ""

\* C28: a call of Authenticate by the user of the client, with or without an
\* error and whatever the headers of the response, leaves the slot as it was
\* when the call was made; the token it returns is not stored.
C28_AuthenticateKeepsToken ==
    (pc = "done" /\ call.op = "Authenticate") =>
        /\ AccessToken = call.token0
        /\ ret.err # NoError => ret.value = <<"">>

C28_Witness ==
    /\ pc = "done"
    /\ call.op = "Authenticate"
    /\ call.token0 = "jkl"
    /\ ret = [err |-> NoError, value |-> <<"ghi">>]
    /\ AccessToken = "jkl"

-----------------------------------------------------------------------------
(* Properties of GetTimeIntersection. *)

Max(a, b) == IF a > b THEN a ELSE b

\* The two ranges share an instant.
Overlap == input.start1 <= input.end2 /\ input.start2 <= input.end1

\* C29: for two ranges with start <= end each GetTimeIntersection returns
\* min(end1, end2) - max(start1, start2); the result is >= 0 exactly when
\* the ranges share an instant, and it is the same for the ranges swapped.
C29_Intersection ==
    Called("GetTimeIntersection") =>
        /\ output.result =
            Min(input.end1, input.end2) - Max(input.start1, input.start2)
        /\ output.result >= 0 <=> Overlap
        /\ output.result =
            GetTimeIntersection(input.start2, input.end2, input.start1, input.end1)

====
